---- MODULE Spec2Model ----
(***************************************************************************)
(* goverify: the check loop of main, checkStream, and the worker pool of   *)
(* runCheck (target producer, SimultaneousRuns workers, closer, draining   *)
(* caller), with channels modelled as unbuffered rendezvous.               *)
(***************************************************************************)
EXTENDS Integers, Sequences, FiniteSets, Bags, TLC

(* ------------------------------ bounds --------------------------------- *)
\* largest simultaneousRuns value written in a configuration file
MaxRuns == 2
\* largest number of checks in conf.Checks
NumChecks == 2
\* largest number of lines the lister command prints
MaxLines == 2

\* runtime.NumCPU() of the machine the run happens on
NumCPU == 1

\* simultaneousRuns is a JSON int: negative values decode without error
FileRuns == (-1)..MaxRuns
Checks == 1..NumChecks

(* --------------------------- values ------------------------------------ *)
\* error values; NoErr is Go's nil error
NoErr == [kind |-> "nil", at |-> 0]
Err(kind, at) == [kind |-> kind, at |-> at]

\* *checkCmd and *eachFileLister; nil |-> TRUE is the nil pointer.  at says which
\* eachFileLister struct the pointer points at: the one of the macro of that
\* name, or ("") a struct only this check holds
NilCmd == [nil |-> TRUE, Cmd |-> "", Args |-> <<>>]
CheckCmd(cmd, args) == [nil |-> FALSE, Cmd |-> cmd, Args |-> args]
NilLister == [nil |-> TRUE, Cmd |-> "", Args |-> <<>>, IgnoreDir |-> <<>>, at |-> ""]
EachFileLister(cmd, args, ign) ==
  [nil |-> FALSE, Cmd |-> cmd, Args |-> args, IgnoreDir |-> ign, at |-> ""]

\* type check struct; Godep is a *bool ("nil", "true", "false"); Validator is the
\* raw JSON of "validate": "unset" (nil) or "bad" (does not decode)
EmptyCheck ==
  [Name |-> "", Cmd |-> "", Fix |-> NilCmd, Check |-> NilCmd, Install |-> NilCmd,
   Gotool |-> "", Godep |-> "nil", Macro |-> "", Each |-> NilLister,
   Validator |-> "unset"]

GitLsFiles == EachFileLister("git", <<"ls-files", "--", "*.go">>, <<>>)

\* the built-in macro catalog (two of its entries)
Macros ==
  [m \in {"gofmt", "vet"} |->
     IF m = "gofmt"
     THEN [EmptyCheck EXCEPT !.Name = "fmt fix", !.Cmd = "gofmt",
                             !.Fix = CheckCmd("", <<"-s", "-w", "-l", "$1">>),
                             !.Check = CheckCmd("", <<"-s", "-l", "$1">>),
                             !.Each = [GitLsFiles EXCEPT !.at = m]]
     ELSE [EmptyCheck EXCEPT !.Name = "vet", !.Cmd = "go",
                             !.Check = CheckCmd("", <<"tool", "vet", "$1">>),
                             !.Gotool = "vet",
                             !.Install = CheckCmd("go", <<"get", "golang.org/x/tools/cmd/vet">>),
                             !.Each = [GitLsFiles EXCEPT !.at = m]]]

\* the checks a configuration file may list
CheckConfigs ==
  { \* the check of TestSimpleCover
    [EmptyCheck EXCEPT !.Name = "import fix", !.Cmd = "goimports",
                       !.Fix = CheckCmd("", <<"-w", "-l", "$1">>),
                       !.Check = CheckCmd("", <<"-l", "$1">>),
                       !.Each = GitLsFiles],
    \* checks that only name a macro
    [EmptyCheck EXCEPT !.Macro = "vet"],
    [EmptyCheck EXCEPT !.Macro = "nope"],
    \* a check whose "validate" document does not decode
    [EmptyCheck EXCEPT !.Name = "bad", !.Cmd = "true", !.Check = CheckCmd("", <<>>),
                       !.Validator = "bad"],
    \* a check with a fix template and no check template
    [EmptyCheck EXCEPT !.Name = "fixonly", !.Cmd = "gofmt",
                       !.Fix = CheckCmd("", <<"-w", "$1">>)],
    \* an unparameterised check with its own install command
    [EmptyCheck EXCEPT !.Name = "varcheck", !.Cmd = "varcheck",
                       !.Check = CheckCmd("", <<"./...">>),
                       !.Install = CheckCmd("go", <<"get", "varcheck">>)],
    \* a per-file check with its own ignored directory
    [EmptyCheck EXCEPT !.Name = "lint", !.Cmd = "golint",
                       !.Check = CheckCmd("", <<"$1">>),
                       !.Each = EachFileLister("git", <<"ls-files">>, <<"vendor">>)] }

\* lines the lister prints: paths as sequences of segments, <<>> the empty line
Candidates == { <<>>, <<"a.go">>, <<"vendor", "b.go">> }
RECURSIVE SeqsUpTo(_, _)
SeqsUpTo(S, n) ==
  IF n = 0 THEN { <<>> }
  ELSE LET shorter == SeqsUpTo(S, n - 1)
       IN shorter \cup { Append(s, x) : s \in { t \in shorter : Len(t) = n - 1 }, x \in S }
ListerOutputs == SeqsUpTo(Candidates, MaxLines)
\* global "ignoreDir" lists a configuration file may give
GlobalIgnores == { <<>>, <<"vendor">> }

Range(s) == { s[j] : j \in 1..Len(s) }
Front(s) == SubSeq(s, 1, Len(s) - 1)

(* --------------------------- pure functions ----------------------------- *)
nonEmptyStr(s1, s2) == IF s1 = "" THEN s2 ELSE s1

nonEmptyStrArr(s1, s2) == IF Len(s1) = 0 THEN s2 ELSE s1

mergeCheckCmdWholesale(c1, c2) == IF c1.nil THEN c2 ELSE c1
mergeCheckCmd(c1, c2) ==
  IF c1.nil THEN c2
  ELSE IF c2.nil THEN c1
  ELSE CheckCmd(nonEmptyStr(c1.Cmd, c2.Cmd), nonEmptyStrArr(c1.Args, c2.Args))

mergeEachFileLister(e1, e2) ==
  IF e1.nil THEN e2
  ELSE IF e2.nil THEN e1
  ELSE EachFileLister(nonEmptyStr(e1.Cmd, e2.Cmd), nonEmptyStrArr(e1.Args, e2.Args),
                      nonEmptyStrArr(e1.IgnoreDir, e2.IgnoreDir))

mergePropertiesFrom(c, macroDef) ==
  [c EXCEPT !.Name = nonEmptyStr(c.Name, macroDef.Name),
            !.Cmd = nonEmptyStr(c.Cmd, macroDef.Cmd),
            !.Fix = mergeCheckCmd(c.Fix, macroDef.Fix),
            !.Check = mergeCheckCmd(c.Check, macroDef.Check),
            !.Install = mergeCheckCmd(c.Install, macroDef.Install),
            !.Gotool = nonEmptyStr(c.Gotool, macroDef.Gotool),
            !.Godep = IF c.Godep = "nil" THEN macroDef.Godep ELSE c.Godep,
            !.Each = mergeEachFileLister(c.Each, macroDef.Each)]

\* strings.Contains(s, substr) on the strings of the model
ProperSubstrings ==
  { <<"abcd", "abcde">>, <<"warning", "warning: unused">>, <<"unused", "warning: unused">>,
    <<"warning", "x.go: warning">>, <<"error", "x.go: error">> }
Contains(s, substr) == substr = "" \/ substr = s \/ <<substr, s>> \in ProperSubstrings

\* the comparison of an ignored fragment d with a segment of the path
segContains(d, subdir) == Contains(subdir, d)
segMatch(d, subdir) == d = subdir

\* path.Split followed by path.Clean of the directory part; a path is the
\* sequence of its segments, an absolute path starts with the segment "/",
\* and <<>> is both "" and "."
pathSplit(filename) ==
  IF filename = <<"/">> THEN [dir |-> <<"/">>, file |-> ""]
  ELSE [dir |-> Front(filename), file |-> filename[Len(filename)]]

\* walk the path from its final segment to the root (relative paths)
RECURSIVE containsName(_, _)
containsName(filename, searchIn) ==
  IF filename = <<>> THEN FALSE
  ELSE IF \E j \in 1..Len(searchIn) : segMatch(searchIn[j], pathSplit(filename).file) THEN TRUE
  ELSE containsName(pathSplit(filename).dir, searchIn)

filteredFilename(e, filename) ==
  IF filename = <<>> THEN TRUE ELSE containsName(filename, e.IgnoreDir)

\* the files getParams keeps of the lister's lines, in order
RECURSIVE getParamsFiles(_, _)
getParamsFiles(e, lines) ==
  IF lines = <<>> THEN <<>>
  ELSE LET rest == getParamsFiles(e, Tail(lines))
       IN IF filteredFilename(e, Head(lines)) THEN rest ELSE <<Head(lines)>> \o rest

\* the template innerCheckIteration takes its arguments from
argsTemplateAlwaysCheck(fixMode, c) == "check"
argsTemplate(fixMode, c) == IF fixMode /\ ~c.Fix.nil THEN "fix" ELSE "check"

\* the checkResult.originalErr of an invocation on queue entry i:
\* runOutcome is what p.run(cmd) returned, verdict what the validator said
checkResultErr(i, runOutcome, verdict) ==
  IF runOutcome # "ok" THEN Err("exit", i)
  ELSE IF verdict # "ok" THEN Err("validate", i)
  ELSE NoErr

\* the retry condition of the worker loop
retryAlways(fixMode, c, err) == err # NoErr
shouldRetry(fixMode, c, err) == fixMode /\ ~c.Fix.nil /\ err # NoErr

\* SimultaneousRuns after loadConfig
defaultRuns(n) == IF n = 0 THEN NumCPU * 2 + 1 ELSE n

\* the condition of the loop that starts the workers
startLoopInclusive(i, n) == i <= n
startLoopCond(i, n) == i < n

\* the producer's loop over params has run out
producerStopsEarly(n, ps) == n > Len(ps) - 1
producerDone(n, ps) == n > Len(ps)

\* the element the producer's n-th iteration sends
rangeElemReversed(ps, n) == ps[Len(ps) - n + 1]
rangeElem(ps, n) == ps[n]

\* wg.Wait returns when the counter is zero
wgWaitNoWait(n) == TRUE
wgWaitReturns(n) == n = 0

\* lastError after the drain loop has seen a result with error err
lastErrorKeepFirst(last, err) == IF last # NoErr THEN last ELSE err
lastErrorOverwrite(last, err) == err
nextLastError(last, err) == IF err # NoErr THEN err ELSE last

\* the drain loop of checkStream has no break: it goes on after any result
drainStopsOnError(err) == err = NoErr
drainContinues(err) == TRUE

\* main returns as soon as a step of an iteration gives an error
mainIgnoresError(err) == FALSE
mainReturnsOn(err) == err # NoErr

(* ------------------------------ state ---------------------------------- *)
VARIABLES
  fix,        \* the -fix flag
  fileRuns,   \* "simultaneousRuns" of the configuration file
  conf,       \* the loaded config
  pc,         \* position of main
  ci,         \* number of the current iteration of main's loop over conf.Checks
  chk,        \* chk[k]: the check c of iteration k (as captured by its goroutines)
  exitErr,    \* what main returned
  checkErrs,  \* the error each finished iteration ended with, in order
  lastError,  \* checkStream's lastError
  received,   \* the results checkStream's range loop has received so far
  params,     \* params[k]: the enumerated targets of check k
  nextParam,  \* index of the element the producer of check k sends next
  prod,       \* the producer goroutine: "none", "loop", "done" (paramOptions closed)
  wk,         \* wk[k]: the worker goroutines of check k, a bag (goroutines have no identity)
  wg,         \* the WaitGroup counter
  closer,     \* the goroutine that waits and closes: "none", "wait", "done"
  outClosed,  \* checkOutput is closed
  closes,     \* number of close(checkOutput) executed
  errSender,  \* the goroutine of the lister-failure path: "none", "send", "close", "done"
  listerErr,  \* listerErr[k]: runCheck's err, captured by that goroutine
  hist,       \* hist[k][i]: originalErr of each invocation made for queue entry i
  taken,      \* taken[k]: the values received from paramOptions, in order
  installs,   \* installs[k]: runs of the install command of check k
  toolProbe,  \* what installToolIfNeeded found out, until checkStream goes on
  listings,   \* listings[k]: runs of the lister command of check k
  crashed,    \* "" or the panic that ended the process
  macros,     \* conf.Macros: the macro of each name
  fnArgs,     \* the arguments of a function that is run on its own
  fnRet       \* what that function has computed so far

vars == <<fix, fileRuns, conf, pc, ci, chk, exitErr, checkErrs, lastError, received,
          params, nextParam, prod, wk, wg, closer, outClosed, closes, errSender,
          listerErr, hist, taken, installs, toolProbe, listings, crashed, macros,
          fnArgs, fnRet>>

mainVars == <<pc, ci, chk, exitErr, checkErrs, lastError, received>>
inputVars == <<fix, fileRuns, conf, macros, fnArgs, fnRet>>
engineVars == <<params, nextParam, prod, wk, wg, closer, outClosed, closes, errSender,
                listerErr, hist, taken>>

ZeroConf == [SimultaneousRuns |-> 0, IgnoreDir |-> <<>>, nChecks |-> 0]
NewWorker == [pc |-> "range", i |-> 0, param |-> <<>>, attempt |-> 0, tmpl |-> "", res |-> NoErr]

TypeOK ==
  /\ fix \in BOOLEAN
  /\ fileRuns \in Int
  /\ pc \in {"load", "loop", "getValidator", "copyFromMacro", "checkStream", "runCheck",
             "drain", "returned"}
  /\ ci \in 0..NumChecks
  /\ crashed \in {"", "nil template", "send on closed channel", "close of closed channel"}
  /\ \A k \in Checks :
       /\ prod[k] \in {"none", "loop", "done"}
       /\ closer[k] \in {"none", "wait", "done"}
       /\ errSender[k] \in {"none", "send", "close", "done"}
       /\ IsABag(wk[k])
       /\ \A r \in BagToSet(wk[k]) : r.pc \in {"range", "run", "send", "done"}

\* installToolIfNeeded has not asked the environment anything
NoProbe == [asked |-> FALSE, goToolOK |-> TRUE, toolListed |-> TRUE, lookPathOK |-> TRUE,
            installOK |-> TRUE]

\* no function is run on its own
NoCall == [fn |-> "none"]

\* the state of the run before main has done anything
ProgramStart ==
  /\ conf = ZeroConf
  /\ macros = Macros
  /\ pc = "load"
  /\ ci = 0
  /\ chk = [k \in Checks |-> EmptyCheck]
  /\ exitErr = NoErr
  /\ checkErrs = <<>>
  /\ lastError = NoErr
  /\ received = <<>>
  /\ params = [k \in Checks |-> <<>>]
  /\ nextParam = [k \in Checks |-> 1]
  /\ prod = [k \in Checks |-> "none"]
  /\ wk = [k \in Checks |-> EmptyBag]
  /\ wg = [k \in Checks |-> 0]
  /\ closer = [k \in Checks |-> "none"]
  /\ outClosed = [k \in Checks |-> FALSE]
  /\ closes = [k \in Checks |-> 0]
  /\ errSender = [k \in Checks |-> "none"]
  /\ listerErr = [k \in Checks |-> NoErr]
  /\ hist = [k \in Checks |-> <<>>]
  /\ taken = [k \in Checks |-> <<>>]
  /\ installs = [k \in Checks |-> 0]
  /\ toolProbe = NoProbe
  /\ listings = [k \in Checks |-> 0]
  /\ crashed = ""

InitWith(runs) ==
  /\ fix \in BOOLEAN
  /\ fileRuns \in runs
  /\ ProgramStart
  /\ fnArgs = NoCall
  /\ fnRet = NoCall

Init == InitWith(FileRuns)

\* runs whose configuration file gives no negative simultaneousRuns
InitEngine == InitWith(0..MaxRuns)

\* the process is alive: no panic, main has not returned
Alive == crashed = "" /\ pc # "returned"


(* ------------------------------- main ---------------------------------- *)
\* an iteration of main's loop ends with err: return it, or go on to the next check
IterationEnds(err) ==
  /\ checkErrs' = Append(checkErrs, err)
  /\ IF mainReturnsOn(err)
     THEN pc' = "returned" /\ exitErr' = err
     ELSE pc' = "loop" /\ exitErr' = exitErr

\* loadConfig: read and decode the file, default SimultaneousRuns
LoadConfig ==
  /\ Alive /\ pc = "load"
  /\ \/ /\ pc' = "returned"
        /\ exitErr' = Err("config", 0)
        /\ conf' = conf
     \/ /\ \E n \in 0..NumChecks, ign \in GlobalIgnores :
             conf' = [SimultaneousRuns |-> defaultRuns(fileRuns), IgnoreDir |-> ign,
                      nChecks |-> n]
        /\ pc' = "loop"
        /\ exitErr' = exitErr
  /\ UNCHANGED <<fix, fileRuns, macros, fnArgs, fnRet, ci, chk, checkErrs, lastError,
                 received, engineVars, installs, toolProbe, listings, crashed>>

\* every goroutine of check k has ended, or is a producer blocked on a channel
\* that has no receiver and never will have one: nothing of check k can act any more
Terminated(k) ==
  /\ \/ prod[k] \in {"none", "done"}
     \/ prod[k] = "loop" /\ wk[k] = EmptyBag /\ nextParam[k] <= Len(params[k])
  /\ closer[k] \in {"none", "done"}
  /\ errSender[k] \in {"none", "done"}
  /\ \A r \in BagToSet(wk[k]) : r.pc = "done"

\* the values of a finished check's locals and ended goroutines are dropped
\* when the loop moves on
Collectable(k) == k = ci /\ Terminated(k)
Collect(f, zero) == [k \in Checks |-> IF Collectable(k) THEN zero ELSE f[k]]

\* for _, c := range conf.Checks
NextCheck ==
  /\ Alive /\ pc = "loop"
  /\ IF ci < conf.nChecks
     THEN /\ ci' = ci + 1
          /\ \E c \in CheckConfigs :
               chk' = [k \in Checks |-> IF k = ci + 1 THEN c
                                        ELSE IF Collectable(k) THEN EmptyCheck ELSE chk[k]]
          /\ pc' = "getValidator"
          /\ exitErr' = exitErr
          /\ lastError' = NoErr
          /\ received' = <<>>
          /\ params' = Collect(params, <<>>)
          /\ nextParam' = Collect(nextParam, 1)
          /\ prod' = Collect(prod, "none")
          /\ wk' = Collect(wk, EmptyBag)
          /\ closer' = Collect(closer, "none")
          /\ outClosed' = Collect(outClosed, FALSE)
          /\ closes' = Collect(closes, 0)
          /\ errSender' = Collect(errSender, "none")
          /\ listerErr' = Collect(listerErr, NoErr)
          /\ hist' = Collect(hist, <<>>)
          /\ taken' = Collect(taken, <<>>)
          /\ installs' = Collect(installs, 0)
          /\ toolProbe' = NoProbe
          /\ listings' = Collect(listings, 0)
          /\ wg' = wg
     ELSE /\ pc' = "returned"
          /\ exitErr' = NoErr
          /\ UNCHANGED <<ci, chk, lastError, received, engineVars, installs, toolProbe, listings>>
  /\ UNCHANGED <<inputVars, checkErrs, crashed>>

\* c.validateDecoded, err = p.getValidator(c)
GetValidator ==
  /\ Alive /\ pc = "getValidator"
  /\ IF chk[ci].Validator = "bad"
     THEN IterationEnds(Err("validator", ci))
     ELSE /\ pc' = IF chk[ci].Macro # "" THEN "copyFromMacro" ELSE "checkStream"
          /\ UNCHANGED <<exitErr, checkErrs>>
  /\ UNCHANGED <<inputVars, ci, chk, lastError, received, engineVars, installs, toolProbe, listings,
                 crashed>>

\* the error copyFromMacro returns for check k, given whether conf.Macros has its macro
copyFromMacroNoErr(exists, k) == NoErr
copyFromMacroErr(exists, k) == IF exists THEN NoErr ELSE Err("macro", k)

\* copyFromMacro; a macro that is not in the map reads as the zero check
CopyFromMacro ==
  /\ Alive /\ pc = "copyFromMacro"
  /\ LET exists == chk[ci].Macro \in DOMAIN macros
         existingMacro == IF exists THEN macros[chk[ci].Macro] ELSE EmptyCheck
         err == copyFromMacroErr(exists, ci)
     IN IF err # NoErr
        THEN /\ IterationEnds(err)
             /\ chk' = chk
        ELSE /\ chk' = [chk EXCEPT ![ci] = mergePropertiesFrom(chk[ci], existingMacro)]
             /\ pc' = "checkStream"
             /\ UNCHANGED <<exitErr, checkErrs>>
  /\ UNCHANGED <<inputVars, ci, lastError, received, engineVars, installs, toolProbe, listings,
                 crashed>>

\* installToolIfNeeded: the error it returns and whether the install command ran,
\* given what the environment answers
needsInstallBoth(hasInstall, lookPathOK, toolFound) ==
  hasInstall /\ ~lookPathOK /\ ~toolFound
needsInstall(hasInstall, lookPathOK, toolFound) ==
  hasInstall /\ (~lookPathOK \/ ~toolFound)

installToolIfNeeded(c, k, goToolOK, toolListed, lookPathOK, installOK) ==
  LET toolFound == IF c.Gotool # "" THEN toolListed ELSE TRUE
      runsInstall == needsInstall(~c.Install.nil, lookPathOK, toolFound)
  IN IF c.Gotool # "" /\ ~goToolOK THEN [err |-> Err("gotool", k), ran |-> FALSE]
     ELSE IF runsInstall /\ ~installOK THEN [err |-> Err("install", k), ran |-> TRUE]
     ELSE [err |-> NoErr, ran |-> runsInstall]

\* the macro map after an assignment to a field of the struct c.Each points at:
\* a macro's lister the check shares with it is that very struct
writeThrough(ms, each) ==
  IF each.nil \/ each.at = "" THEN ms
  ELSE [ms EXCEPT ![each.at].Each.IgnoreDir = each.IgnoreDir]

\* c.Each.IgnoreDir after checkStream has appended conf.IgnoreDir
appendNothing(own, global) == own
appendIgnoreDir(own, global) == own \o global

\* checkStream up to the call of runCheck
CheckStreamInstall ==
  /\ Alive /\ pc = "checkStream"
  /\ LET c == IF chk[ci].Each.nil THEN chk[ci]
              ELSE [chk[ci] EXCEPT !.Each.IgnoreDir = appendIgnoreDir(@, conf.IgnoreDir)]
     IN \E goToolOK, toolListed, lookPathOK, installOK \in BOOLEAN :
          LET r == installToolIfNeeded(c, ci, goToolOK, toolListed, lookPathOK, installOK)
              introspects == c.Gotool # ""
              looksUp == ~(introspects /\ ~goToolOK)
          IN /\ chk' = [chk EXCEPT ![ci] = c]
             /\ macros' = writeThrough(macros, c.Each)
             /\ installs' = [installs EXCEPT ![ci] = @ + (IF r.ran THEN 1 ELSE 0)]
             /\ toolProbe' = [asked |-> TRUE,
                              goToolOK |-> (introspects => goToolOK),
                              toolListed |-> ((introspects /\ goToolOK) => toolListed),
                              lookPathOK |-> (looksUp => lookPathOK),
                              installOK |-> (r.ran => installOK)]
             /\ IF r.err # NoErr
                THEN IterationEnds(r.err)
                ELSE pc' = "runCheck" /\ UNCHANGED <<exitErr, checkErrs>>
  /\ UNCHANGED <<fix, fileRuns, conf, fnArgs, fnRet, ci, lastError, received, engineVars,
                 listings, crashed>>

\* the number of iterations of the loop that starts the workers
RECURSIVE startLoop(_, _)
startLoop(i, n) == IF startLoopCond(i, n) THEN startLoop(i + 1, n) ELSE i

\* a bag of n copies of x
Copies(x, n) == IF n > 0 THEN x :> n ELSE EmptyBag
\* bag b with one copy of x replaced by y
Replace(b, x, y) == (b (-) SetToBag({x})) (+) SetToBag({y})
\* number of goroutines in bag b whose record is in S
RECURSIVE CountIn(_, _)
CountIn(b, S) ==
  IF S = {} THEN 0
  ELSE LET x == CHOOSE y \in S : TRUE
       IN CopiesIn(x, b) + CountIn(b, S \ {x})

\* what getParams returns as its error when the lister command ran with runOK
getParamsErr(runOK, k) == IF runOK THEN NoErr ELSE Err("lister", k)

\* runCheck takes the failure path when getParams gave an error
runCheckGoesOn(err) == FALSE
runCheckFails(err) == err # NoErr

\* runCheck: enumerate, then start the producer, the workers and the closer
\* (or, when the lister failed, the goroutine that reports the failure)
RunCheck ==
  /\ Alive /\ pc = "runCheck"
  /\ LET k == ci
         c == chk[ci]
         start(ps) ==
           /\ params' = [params EXCEPT ![k] = ps]
           /\ hist' = [hist EXCEPT ![k] = [i \in 1..Len(ps) |-> <<>>]]
           /\ nextParam' = [nextParam EXCEPT ![k] = 1]
           /\ prod' = [prod EXCEPT ![k] = "loop"]
           /\ LET n == startLoop(0, conf.SimultaneousRuns)
              IN /\ wk' = [wk EXCEPT ![k] = Copies(NewWorker, n)]
                 /\ wg' = [wg EXCEPT ![k] = n]
           /\ closer' = [closer EXCEPT ![k] = "wait"]
           /\ UNCHANGED errSender
     IN IF ~c.Each.nil
        THEN /\ listings' = [listings EXCEPT ![k] = @ + 1]
             /\ \E runOK \in BOOLEAN :
                  LET err == getParamsErr(runOK, k)
                  IN /\ listerErr' = [listerErr EXCEPT ![k] = err]
                     /\ IF runCheckFails(err)
                        THEN /\ errSender' = [errSender EXCEPT ![k] = "send"]
                             /\ UNCHANGED <<params, hist, nextParam, prod, wk, wg, closer>>
                        ELSE \E lines \in (IF runOK THEN ListerOutputs ELSE { <<>> }) :
                               start(getParamsFiles(c.Each, lines))
        ELSE /\ UNCHANGED <<listings, listerErr>>
             /\ start(<< <<".">> >>)
  /\ pc' = "drain"
  /\ toolProbe' = NoProbe
  /\ UNCHANGED <<inputVars, ci, chk, exitErr, checkErrs, lastError, received,
                 outClosed, closes, taken, installs, crashed>>

(* ---------------------- goroutines of runCheck -------------------------- *)
\* innerCheckIteration up to p.run(cmd): pick the template, launch the child.
\* A nil template is dereferenced: the process panics.
Launch(k, r, i, param, attempt) ==
  LET tmpl == argsTemplate(fix, chk[k])
  IN IF (tmpl = "check" /\ chk[k].Check.nil)
     THEN /\ crashed' = "nil template"
          /\ wk' = wk
     ELSE /\ wk' = [wk EXCEPT ![k] = Replace(@, r, [pc |-> "run", i |-> i, param |-> param,
                                                     attempt |-> attempt, tmpl |-> tmpl,
                                                     res |-> NoErr])]
          /\ crashed' = crashed

\* a worker receives the element the producer is sending on paramOptions
WorkerTake(k, r) ==
  /\ Alive
  /\ r.pc = "range"
  /\ prod[k] = "loop" /\ ~producerDone(nextParam[k], params[k])
  /\ LET param == rangeElem(params[k], nextParam[k])
     IN /\ taken' = [taken EXCEPT ![k] = Append(@, param)]
        /\ Launch(k, r, nextParam[k], param, 1)
  /\ nextParam' = [nextParam EXCEPT ![k] = @ + 1]
  /\ UNCHANGED <<inputVars, mainVars, params, prod, wg, closer, outClosed, closes,
                 errSender, listerErr, hist, installs, toolProbe, listings>>

\* the child process of a worker exits: validate, retry once in fix mode
WorkerChildExit(k, r) ==
  /\ Alive
  /\ r.pc = "run"
  /\ \E runOutcome \in {"ok", "failed"}, verdict \in {"ok", "rejected"} :
       LET err == checkResultErr(r.i, runOutcome, verdict)
       IN /\ hist' = [hist EXCEPT ![k][r.i] = Append(@, err)]
          /\ IF r.attempt = 1 /\ shouldRetry(fix, chk[k], err)
             THEN Launch(k, r, r.i, r.param, 2)
             ELSE /\ wk' = [wk EXCEPT ![k] = Replace(@, r, [r EXCEPT !.pc = "send",
                                                                      !.res = err])]
                  /\ crashed' = crashed
  /\ UNCHANGED <<inputVars, mainVars, params, nextParam, prod, wg, closer, outClosed,
                 closes, errSender, listerErr, taken, installs, toolProbe, listings>>

\* checkStream's range loop receives a result: what it does with it
Receive(i, err) ==
  /\ received' = Append(received, [i |-> i, err |-> err])
  /\ lastError' = nextLastError(lastError, err)
  /\ IF drainContinues(err)
     THEN UNCHANGED <<pc, exitErr, checkErrs>>
     ELSE IterationEnds(err)
  /\ UNCHANGED <<ci, chk>>

\* checkOutput <- checkRes, met by the receive of checkStream's range loop
WorkerSend(k, r) ==
  /\ Alive
  /\ r.pc = "send"
  /\ IF outClosed[k]
     THEN /\ crashed' = "send on closed channel"
          /\ UNCHANGED <<mainVars, wk>>
     ELSE /\ pc = "drain" /\ ci = k
          /\ Receive(r.i, r.res)
          /\ wk' = [wk EXCEPT ![k] = Replace(@, r, NewWorker)]
          /\ crashed' = crashed
  /\ UNCHANGED <<inputVars, params, nextParam, prod, wg, closer, outClosed, closes,
                 errSender, listerErr, hist, taken, installs, toolProbe, listings>>

\* the range over paramOptions ends: the deferred wg.Done runs
WorkerExit(k, r) ==
  /\ Alive
  /\ r.pc = "range"
  /\ prod[k] = "done"
  /\ wk' = [wk EXCEPT ![k] = Replace(@, r, [r EXCEPT !.pc = "done"])]
  /\ wg' = [wg EXCEPT ![k] = @ - 1]
  /\ UNCHANGED <<inputVars, mainVars, params, nextParam, prod, closer, outClosed, closes,
                 errSender, listerErr, hist, taken, installs, toolProbe, listings, crashed>>

\* the producer has sent every element: close(paramOptions)
ProducerClose(k) ==
  /\ Alive
  /\ prod[k] = "loop" /\ producerDone(nextParam[k], params[k])
  /\ prod' = [prod EXCEPT ![k] = "done"]
  /\ UNCHANGED <<inputVars, mainVars, params, nextParam, wk, wg, closer, outClosed,
                 closes, errSender, listerErr, hist, taken, installs, toolProbe, listings, crashed>>

\* wg.Wait(); close(checkOutput)
CloserClose(k) ==
  /\ Alive
  /\ closer[k] = "wait" /\ wgWaitReturns(wg[k])
  /\ closer' = [closer EXCEPT ![k] = "done"]
  /\ IF outClosed[k]
     THEN /\ crashed' = "close of closed channel"
          /\ UNCHANGED <<outClosed, closes>>
     ELSE /\ outClosed' = [outClosed EXCEPT ![k] = TRUE]
          /\ closes' = [closes EXCEPT ![k] = @ + 1]
          /\ crashed' = crashed
  /\ UNCHANGED <<inputVars, mainVars, params, nextParam, prod, wk, wg, errSender,
                 listerErr, hist, taken, installs, toolProbe, listings>>

\* the lister failed: the goroutine sends the one result carrying the failure
ErrSend(k) ==
  /\ Alive
  /\ errSender[k] = "send"
  /\ pc = "drain" /\ ci = k
  /\ Receive(0, listerErr[k])
  /\ errSender' = [errSender EXCEPT ![k] = "close"]
  /\ UNCHANGED <<inputVars, params, nextParam, prod, wk, wg, closer, outClosed, closes,
                 listerErr, hist, taken, installs, toolProbe, listings, crashed>>

\* ... and closes checkOutput
ErrClose(k) ==
  /\ Alive
  /\ errSender[k] = "close"
  /\ errSender' = [errSender EXCEPT ![k] = "done"]
  /\ outClosed' = [outClosed EXCEPT ![k] = TRUE]
  /\ closes' = [closes EXCEPT ![k] = @ + 1]
  /\ UNCHANGED <<inputVars, mainVars, params, nextParam, prod, wk, wg, closer, listerErr,
                 hist, taken, installs, toolProbe, listings, crashed>>

\* the range loop of checkStream sees the channel closed: return lastError
DrainClosed ==
  /\ Alive /\ pc = "drain"
  /\ outClosed[ci]
  /\ IterationEnds(lastError)
  /\ UNCHANGED <<inputVars, ci, chk, lastError, received, engineVars, installs, toolProbe, listings,
                 crashed>>

Next ==
  \/ LoadConfig
  \/ NextCheck
  \/ GetValidator
  \/ CopyFromMacro
  \/ CheckStreamInstall
  \/ RunCheck
  \/ DrainClosed
  \/ \E k \in Checks :
       \/ ProducerClose(k)
       \/ CloserClose(k)
       \/ ErrSend(k)
       \/ ErrClose(k)
       \/ \E r \in BagToSet(wk[k]) :
            \/ WorkerTake(k, r)
            \/ WorkerChildExit(k, r)
            \/ WorkerSend(k, r)
            \/ WorkerExit(k, r)

Spec == Init /\ [][Next]_vars

SpecEngine == InitEngine /\ [][Next]_vars


(* ---------------------------- properties ------------------------------- *)
\* runCheck took the worker path for check k (the lister did not fail)
WorkerPath(k) == prod[k] # "none"
\* runCheck has returned a result stream for check k
StreamCreated(k) == prod[k] # "none" \/ errSender[k] # "none"
\* child processes of check k that are running
Running(k) == CountIn(wk[k], { r \in BagToSet(wk[k]) : r.pc = "run" })
\* workers of check k that hold queue entry i (running it, or sending its result)
Holding(k, i) == CountIn(wk[k], { r \in BagToSet(wk[k]) : r.pc \in {"run", "send"} /\ r.i = i })
\* the iteration of check ci is over: its error is the last of checkErrs
IterationOver == ci >= 1 /\ Len(checkErrs) = ci
\* positions of the received results that carry an error
Failures == { j \in 1..Len(received) : received[j].err # NoErr }
MaxOf(S) == CHOOSE x \in S : \A y \in S : y <= x
MinOf(S) == CHOOSE x \in S : \A y \in S : x <= y
RECURSIVE SumOver(_, _)
SumOver(S, f) ==
  IF S = {} THEN 0 ELSE LET x == CHOOSE y \in S : TRUE IN f[x] + SumOver(S \ {x}, f)

\* C1: with a concurrency limit N >= 1 and M enumerated targets, the stream never
\* carries two results of one queue entry, and when it is closed it has delivered
\* exactly M results, one per entry.
C1_ExactlyOneResultPerTarget ==
  (ci >= 1 /\ conf.SimultaneousRuns >= 1 /\ WorkerPath(ci)) =>
     /\ \A a, b \in 1..Len(received) : a # b => received[a].i # received[b].i
     /\ \A a \in 1..Len(received) : received[a].i \in 1..Len(params[ci])
     /\ outClosed[ci] =>
          /\ Len(received) = Len(params[ci])
          /\ { received[a].i : a \in 1..Len(received) } = 1..Len(params[ci])

C1_Witness ==
  /\ ci >= 1 /\ WorkerPath(ci) /\ outClosed[ci]
  /\ conf.SimultaneousRuns >= 2
  /\ Len(params[ci]) = 2 /\ Len(received) = 2

C3_OneWorkerPerEntryInOrder ==
  \A k \in Checks :
    /\ \A i \in 1..Len(params[k]) : Holding(k, i) <= 1
    /\ \A r \in BagToSet(wk[k]) :
         r.pc \in {"run", "send"} => r.i \in 1..Len(taken[k]) /\ r.param = params[k][r.i]
    /\ Len(taken[k]) = nextParam[k] - 1
    /\ Len(taken[k]) <= Len(params[k])
    /\ \A n \in 1..Len(taken[k]) : taken[k][n] = params[k][n]

C3_Witness ==
  \E k \in Checks :
    /\ Running(k) = 2
    /\ Len(taken[k]) = 2
    /\ params[k][1] # params[k][2]

C5_CloseAfterWorkers ==
  /\ crashed \notin {"send on closed channel", "close of closed channel"}
  /\ \A k \in Checks :
       /\ closes[k] <= 1
       /\ outClosed[k] <=> closes[k] = 1
       /\ outClosed[k] => \A r \in BagToSet(wk[k]) : r.pc = "done"
       /\ (outClosed[k] /\ k = ci /\ WorkerPath(k)) => Len(received) = Len(taken[k])
  /\ (IterationOver /\ StreamCreated(ci)) => closes[ci] = 1

C5_Witness ==
  /\ ci >= 1 /\ outClosed[ci]
  /\ BagCardinality(wk[ci]) >= 2
  /\ Len(taken[ci]) = 2
  /\ pc = "drain"

\* C6: when checkStream returns from its drain loop the stream is closed, and it
\* returns nil iff no received result carried an error, else the error of the last
\* received result that carried one.
C6_DrainsAllReturnsLast ==
  (IterationOver /\ StreamCreated(ci)) =>
     /\ outClosed[ci]
     /\ checkErrs[ci] = NoErr <=> Failures = {}
     /\ Failures # {} => checkErrs[ci] = received[MaxOf(Failures)].err

C6_Witness ==
  /\ IterationOver /\ StreamCreated(ci)
  /\ Len(received) = 2
  /\ received[1].err # NoErr /\ received[2].err # NoErr
  /\ received[1].err # received[2].err
  /\ checkErrs[ci] = received[2].err

\* C7 as stated: the error checkStream returns is that of the first failing result
\* received.
C7_FirstErrorSurfaced ==
  (IterationOver /\ StreamCreated(ci) /\ Failures # {}) =>
     checkErrs[ci] = received[MinOf(Failures)].err

\* C7 as amended: every failing result received replaces lastError, and what the
\* drain loop leaves in lastError is what the iteration ends with.
C7_LaterFailureReplaces ==
  [][ /\ (Len(received') = Len(received) + 1 /\ received'[Len(received')].err # NoErr)
           => lastError' = received'[Len(received')].err
      /\ (Len(received') = Len(received) + 1 /\ received'[Len(received')].err = NoErr)
           => lastError' = lastError
      /\ (pc = "drain" /\ pc' # "drain") => checkErrs' = Append(checkErrs, lastError)
    ]_vars

C7_Witness ==
  /\ pc = "drain"
  /\ Cardinality(Failures) >= 2
  /\ lastError = received[MaxOf(Failures)].err
  /\ lastError # received[MinOf(Failures)].err

\* C8: iterations run in list order, one at a time; a goroutine of check k acts only
\* while main is draining check k; no iteration follows one that ended with an
\* error; main returns that error, and returns nil only after every check succeeded.
C8_SequentialAbortOnError ==
  /\ Len(checkErrs) = (IF pc \in {"load", "loop", "returned"} THEN ci ELSE ci - 1)
  /\ \A j \in 1..(Len(checkErrs) - 1) : checkErrs[j] = NoErr
  /\ \A k \in Checks :
       /\ (Running(k) > 0 \/ (StreamCreated(k) /\ ~outClosed[k])) => (k = ci /\ pc = "drain")
       /\ k > ci => /\ installs[k] = 0 /\ listings[k] = 0
                    /\ ~StreamCreated(k) /\ wk[k] = EmptyBag
  /\ (pc = "returned" /\ exitErr.kind # "config") =>
        /\ exitErr = NoErr <=> (ci = conf.nChecks /\ \A j \in 1..Len(checkErrs) : checkErrs[j] = NoErr)
        /\ exitErr # NoErr => exitErr = checkErrs[Len(checkErrs)]

C8_Witness ==
  /\ pc = "returned"
  /\ conf.nChecks = 2 /\ ci = 1
  /\ exitErr.kind = "exit"
  /\ installs[2] = 0 /\ listings[2] = 0

\* C9: when the lister of a check fails, no producer, worker or closer exists and no
\* entry is invoked; the stream carries the lister failure as its one result and is
\* closed after it; checkStream returns that failure.
C9_ListerFailure ==
  \A k \in Checks :
    listerErr[k] # NoErr =>
      /\ wk[k] = EmptyBag /\ prod[k] = "none" /\ closer[k] = "none"
      /\ params[k] = <<>> /\ taken[k] = <<>> /\ hist[k] = <<>>
      /\ errSender[k] # "none"
      /\ outClosed[k] <=> errSender[k] = "done"
      /\ k = ci
      /\ received = (IF errSender[k] = "send" THEN <<>>
                     ELSE << [i |-> 0, err |-> listerErr[k]] >>)
      /\ listerErr[k].kind = "lister"
      /\ IterationOver => checkErrs[k] = listerErr[k]

C9_Witness ==
  /\ IterationOver
  /\ listerErr[ci] # NoErr
  /\ outClosed[ci]
  /\ Len(received) = 1
  /\ pc = "returned" /\ exitErr = listerErr[ci]

\* C10: once the configuration is loaded the concurrency limit is at least 1, so
\* a closed stream of the worker path has delivered a result for every target.
C10_LimitAtLeastOne ==
  (pc # "load" /\ exitErr.kind # "config") =>
     /\ conf.SimultaneousRuns >= 1
     /\ (ci >= 1 /\ WorkerPath(ci) /\ outClosed[ci]) => Len(received) = Len(params[ci])

(* =================== functions run on their own ========================= *)
\* the state of a run in which only one function of the program is called
FnInit(calls) ==
  /\ fix = FALSE
  /\ fileRuns = 0
  /\ ProgramStart
  /\ fnArgs \in calls
  /\ fnRet = NoCall

programVars ==
  <<fix, fileRuns, conf, macros, mainVars, engineVars, installs, toolProbe, listings,
    crashed>>

(* ---------------------- check.mergePropertiesFrom ----------------------- *)
\* what a configuration file and a macro catalog may say in one field
OwnStrs == { "", "own" }
OwnCmds ==
  { NilCmd, CheckCmd("", <<>>), CheckCmd("own", <<>>), CheckCmd("", <<"own", "$1">>),
    CheckCmd("own", <<"own", "$1">>) }
OwnListers ==
  { NilLister, EachFileLister("", <<>>, <<>>), EachFileLister("own", <<>>, <<"ownDir">>),
    EachFileLister("", <<"own">>, <<>>) }
OwnChecks ==
  { [EmptyCheck EXCEPT !.Name = n, !.Cmd = c, !.Gotool = t, !.Godep = g, !.Fix = f,
                       !.Check = k, !.Install = i, !.Each = e, !.Macro = "m"] :
      n \in OwnStrs, c \in OwnStrs, t \in OwnStrs, g \in {"nil", "true", "false"},
      f \in OwnCmds, k \in { NilCmd, CheckCmd("", <<"own">>) },
      i \in { NilCmd, CheckCmd("own", <<>>) }, e \in OwnListers }
MacroDefs ==
  { EmptyCheck,
    [EmptyCheck EXCEPT !.Name = "mac", !.Cmd = "mac", !.Gotool = "mac", !.Godep = "true",
                       !.Fix = CheckCmd("mac", <<"mac", "$1">>),
                       !.Check = CheckCmd("mac", <<"mac", "$1">>),
                       !.Install = CheckCmd("mac", <<"get", "mac">>),
                       !.Each = EachFileLister("mac", <<"ls">>, <<"macDir">>)],
    [EmptyCheck EXCEPT !.Name = "mac", !.Godep = "false",
                       !.Fix = CheckCmd("mac", <<>>), !.Check = CheckCmd("", <<"mac">>),
                       !.Each = EachFileLister("", <<>>, <<"macDir">>)],
    [EmptyCheck EXCEPT !.Cmd = "mac", !.Gotool = "mac",
                       !.Fix = CheckCmd("", <<"mac">>), !.Install = CheckCmd("mac", <<>>),
                       !.Each = EachFileLister("mac", <<"ls">>, <<>>)] }

MergeCalls ==
  { [fn |-> "mergePropertiesFrom", c |-> c, macroDef |-> m] : c \in OwnChecks, m \in MacroDefs }

\* c.mergePropertiesFrom(existingMacro)
MergePropertiesFrom ==
  /\ fnArgs.fn = "mergePropertiesFrom"
  /\ fnRet = NoCall
  /\ fnRet' = [fn |-> "mergePropertiesFrom", c |-> mergePropertiesFrom(fnArgs.c, fnArgs.macroDef)]
  /\ UNCHANGED <<programVars, fnArgs>>

InitMerge == FnInit(MergeCalls)
NextMerge == MergePropertiesFrom
SpecMerge == InitMerge /\ [][NextMerge]_vars

(* ------------------- getValidator and copyFromMacro --------------------- *)
\* a key of a "validate" document: absent, or given with a value
Absent(zero) == [given |-> FALSE, v |-> zero]
Given(v) == [given |-> TRUE, v |-> v]

\* json.RawMessage of "validate": nil, a document that does not decode, or an
\* object with some of the keys type, coverage, ignoreDir, ignoreMsg, ignoreOutput;
\* coverage is in thousandths of a percent
NilDoc ==
  [nil |-> TRUE, bad |-> FALSE, type |-> "", coverage |-> Absent(0),
   ignoreDir |-> Absent(<<>>), ignoreMsg |-> Absent(<<>>), ignoreOutput |-> Absent(FALSE)]
BadDoc == [NilDoc EXCEPT !.nil = FALSE, !.bad = TRUE]
Doc(type, coverage, ignoreDir, ignoreMsg, ignoreOutput) ==
  [nil |-> FALSE, bad |-> FALSE, type |-> type, coverage |-> coverage,
   ignoreDir |-> ignoreDir, ignoreMsg |-> ignoreMsg, ignoreOutput |-> ignoreOutput]

\* cmdValidator: the nil interface, *emptyValidator or *coverageValidator
NilValidator ==
  [kind |-> "nil", IgnoreMsg |-> <<>>, IgnoreAllOutput |-> FALSE,
   RequiredCoverage |-> 0, IgnoreDir |-> <<>>]
EmptyValidator(msgs, all) ==
  [NilValidator EXCEPT !.kind = "empty", !.IgnoreMsg = msgs, !.IgnoreAllOutput = all]
CoverageValidator(required, dirs) ==
  [NilValidator EXCEPT !.kind = "cover", !.RequiredCoverage = required, !.IgnoreDir = dirs]

\* json.Unmarshal(doc, dest): the keys the document gives overwrite dest's fields
unmarshal(doc, dest) ==
  IF dest.kind = "cover"
  THEN [dest EXCEPT !.RequiredCoverage = IF doc.coverage.given THEN doc.coverage.v ELSE @,
                    !.IgnoreDir = IF doc.ignoreDir.given THEN doc.ignoreDir.v ELSE @]
  ELSE [dest EXCEPT !.IgnoreMsg = IF doc.ignoreMsg.given THEN doc.ignoreMsg.v ELSE @,
                    !.IgnoreAllOutput = IF doc.ignoreOutput.given THEN doc.ignoreOutput.v ELSE @]

getValidator(doc) ==
  IF doc.nil THEN [err |-> FALSE, v |-> EmptyValidator(<<>>, FALSE)]
  ELSE IF doc.bad THEN [err |-> TRUE, v |-> NilValidator]
  ELSE LET dest == IF doc.type = "cover" THEN CoverageValidator(0, <<>>)
                   ELSE IF doc.type = "returncode" THEN EmptyValidator(<<>>, TRUE)
                   ELSE EmptyValidator(<<>>, FALSE)
       IN [err |-> FALSE, v |-> unmarshal(doc, dest)]

\* the end of check.mergePropertiesFrom: an *emptyValidator counts as no validator
unsetValidator(v) == IF v.kind = "empty" THEN NilValidator ELSE v

emptyValidatorMergePropertiesFrom(c, val) ==
  IF val.nil \/ val.bad THEN c
  ELSE LET other == unmarshal(val, EmptyValidator(<<>>, FALSE))
       IN [c EXCEPT !.IgnoreMsg = nonEmptyStrArr(other.IgnoreMsg, c.IgnoreMsg)]

coverageValidatorMergePropertiesFrom(c, val) ==
  IF val.nil \/ val.bad THEN c
  ELSE LET other == unmarshal(val, CoverageValidator(0, <<>>))
       IN [c EXCEPT !.RequiredCoverage = IF other.RequiredCoverage # 0
                                         THEN other.RequiredCoverage ELSE @,
                    !.IgnoreDir = nonEmptyStrArr(other.IgnoreDir, c.IgnoreDir)]

\* c.validateDecoded.MergePropertiesFrom(val): the method of the dynamic type
validatorMergePropertiesFrom(c, val) ==
  IF c.kind = "cover" THEN coverageValidatorMergePropertiesFrom(c, val)
  ELSE emptyValidatorMergePropertiesFrom(c, val)

\* "validate" documents of checks and of macros
OwnDocs ==
  { NilDoc, BadDoc } \cup
  { Doc(t, c, d, m, o) :
      t \in {"", "cover", "returncode", "plain"},
      c \in {Absent(0), Given(0), Given(90000)},
      d \in {Absent(<<>>), Given(<<>>), Given(<<"ownDir">>)},
      m \in {Absent(<<>>), Given(<<>>), Given(<<"ownMsg">>)},
      o \in {Absent(FALSE), Given(TRUE)} }
\* macros by name: no macro (""), go-cover and gocoverdir of the catalog, a macro
\* without "validate", and configured macros with ignore lists
MacroDocs ==
  { [name |-> "", doc |-> NilDoc],
    [name |-> "go-cover",
     doc |-> Doc("cover", Given(100000), Absent(<<>>), Absent(<<>>), Absent(FALSE))],
    [name |-> "gocoverdir",
     doc |-> Doc("returncode", Absent(0), Absent(<<>>), Absent(<<>>), Absent(FALSE))],
    [name |-> "vet", doc |-> NilDoc],
    [name |-> "mycover",
     doc |-> Doc("cover", Given(50000), Given(<<"macDir">>), Absent(<<>>), Absent(FALSE))],
    [name |-> "mylint",
     doc |-> Doc("", Absent(0), Absent(<<>>), Given(<<"macMsg">>), Absent(FALSE))] }

ValidatorCalls ==
  { [fn |-> "validator", Validator |-> d, Macro |-> m.name, macroValidator |-> m.doc,
     confIgnoreDir |-> g] :
      d \in OwnDocs, m \in MacroDocs, g \in GlobalIgnores }

\* main: c.validateDecoded, err = p.getValidator(c)
MainGetValidator ==
  /\ fnArgs.fn = "validator"
  /\ fnRet = NoCall
  /\ LET got == getValidator(fnArgs.Validator)
     IN fnRet' = [fn |-> "getValidator", err |-> got.err, validateDecoded |-> got.v,
                  crashed |-> FALSE]
  /\ UNCHANGED <<programVars, fnArgs>>

\* copyFromMacro from mergePropertiesFrom on, for a macro the catalog has
MainCopyFromMacro ==
  /\ fnArgs.fn = "validator"
  /\ fnRet.fn = "getValidator" /\ ~fnRet.err
  /\ fnArgs.Macro # ""
  /\ LET own == unsetValidator(fnRet.validateDecoded)
         merged == IF own.kind = "nil"
                   THEN validatorMergePropertiesFrom(getValidator(fnArgs.macroValidator).v,
                                                     fnArgs.Validator)
                   ELSE own
     IN fnRet' = [fn |-> "copyFromMacro", err |-> FALSE, validateDecoded |-> merged,
                  crashed |-> (fnArgs.Macro = "go-cover" /\ merged.kind # "cover")]
  /\ UNCHANGED <<programVars, fnArgs>>

\* main: a coverage validator gets conf.IgnoreDir as its IgnoreDir; the check
\* then goes to checkStream
MainSetIgnoreDir ==
  /\ fnArgs.fn = "validator"
  /\ \/ fnRet.fn = "getValidator" /\ ~fnRet.err /\ fnArgs.Macro = ""
     \/ fnRet.fn = "copyFromMacro" /\ ~fnRet.crashed
  /\ fnRet' = [fnRet EXCEPT
                 !.fn = "checkStream",
                 !.validateDecoded = IF @.kind = "cover"
                                     THEN [@ EXCEPT !.IgnoreDir = fnArgs.confIgnoreDir]
                                     ELSE @]
  /\ UNCHANGED <<programVars, fnArgs>>

InitValidator == FnInit(ValidatorCalls)
NextValidator == MainGetValidator \/ MainCopyFromMacro \/ MainSetIgnoreDir
SpecValidator == InitValidator /\ [][NextValidator]_vars

(* ---------------- filteredFilename and containsName --------------------- *)
\* deepest path the lister prints
MaxDepth == 3
PathSegs == { "abcd", "abcde", "test.go" }
\* relative paths, and the same paths below the root
FilterPaths ==
  LET rel == SeqsUpTo(PathSegs, MaxDepth) IN rel \cup { <<"/">> \o f : f \in rel }
OwnIgnoreDirs == { <<>>, <<"abcd">>, <<"vendor">>, <<"vendor", "abcd">> }
ConfIgnoreDirs == { <<>>, <<"abcd">>, <<"abcde">> }

FilterCalls ==
  { [fn |-> "filter", filename |-> f, IgnoreDir |-> own, confIgnoreDir |-> global] :
      f \in FilterPaths, own \in OwnIgnoreDirs, global \in ConfIgnoreDirs }

\* checkStream: c.Each.IgnoreDir = append(c.Each.IgnoreDir, conf.IgnoreDir...)
FilterCheckStream ==
  /\ fnArgs.fn = "filter"
  /\ fnRet = NoCall
  /\ fnRet' = [fn |-> "checkStream", filename |-> fnArgs.filename, done |-> FALSE,
               out |-> FALSE,
               IgnoreDir |-> appendIgnoreDir(fnArgs.IgnoreDir, fnArgs.confIgnoreDir)]
  /\ UNCHANGED <<programVars, fnArgs>>

\* getParams calls filteredFilename(file): the empty line is filtered, any other
\* line goes to containsName
FilteredFilename ==
  /\ fnArgs.fn = "filter"
  /\ fnRet.fn = "checkStream"
  /\ fnRet' = [fnRet EXCEPT !.fn = "containsName",
                            !.done = (fnArgs.filename = <<>>),
                            !.out = (fnArgs.filename = <<>>)]
  /\ UNCHANGED <<programVars, fnArgs>>

\* one evaluation of containsName's loop condition, and one iteration of its body
ContainsNameStep ==
  /\ fnArgs.fn = "filter"
  /\ fnRet.fn = "containsName" /\ ~fnRet.done
  /\ IF fnRet.filename = <<>>
     THEN fnRet' = [fnRet EXCEPT !.done = TRUE, !.out = FALSE]
     ELSE LET split == pathSplit(fnRet.filename)
          IN IF \E j \in 1..Len(fnRet.IgnoreDir) : segMatch(fnRet.IgnoreDir[j], split.file)
             THEN fnRet' = [fnRet EXCEPT !.filename = split.dir, !.done = TRUE, !.out = TRUE]
             ELSE fnRet' = [fnRet EXCEPT !.filename = split.dir]
  /\ UNCHANGED <<programVars, fnArgs>>

InitFilter == FnInit(FilterCalls)
NextFilter == FilterCheckStream \/ FilteredFilename \/ ContainsNameStep
SpecFilter == InitFilter /\ [][NextFilter]_vars

(* ----------------------- coverageValidator.Check ------------------------ *)
\* most lines a command prints on stdout
MaxOutLines == 2
\* the tolerance .009 in thousandths of a percent
Tolerance == 9

\* a line of "go test -cover" output: whether it has a tab, the package path after
\* the first tab, and what follows: "[no test files]", "coverage: N% of
\* statements" with N in thousandths of a percent, or neither; "" is EmptyLine
EmptyLine == [tab |-> FALSE, path |-> <<>>, kind |-> "empty", pct |-> 0]
CoverLine(path, kind, pct) == [tab |-> TRUE, path |-> path, kind |-> kind, pct |-> pct]
\* 9.0, 9.991, 9.992, 10.0, 10.1 percent
SeenPercents == { 0, 9000, 9991, 9992, 10000, 10100 }
CoverLines ==
  { EmptyLine,
    [EmptyLine EXCEPT !.kind = "garbage"],
    [EmptyLine EXCEPT !.kind = "pct", !.pct = 9000] } \cup
  { CoverLine(p, "notest", 0) : p \in { <<"pkg">>, <<"vendor", "pkg">> } } \cup
  { CoverLine(p, "garbage", 0) : p \in { <<"pkg">>, <<"vendor", "pkg">> } } \cup
  { CoverLine(p, "pct", n) : p \in { <<"pkg">>, <<"vendor", "pkg">> }, n \in SeenPercents }
\* required coverage 0, 0.009, 0.010 and 10.0 percent
RequiredCoverages == { 0, 9, 10, 10000 }

\* error values of the validators
NoValidateErr == [kind |-> "nil", seen |-> 0, required |-> 0, text |-> EmptyLine]
UnableToFindMatch(line) == [NoValidateErr EXCEPT !.kind = "unable to find match", !.text = line]
CoverageError(seen, required) ==
  [NoValidateErr EXCEPT !.kind = "coverage", !.seen = seen, !.required = required]

\* (c *coverageValidator) Check(stdout, stderr), stdout as its sequence of lines
RECURSIVE coverageValidatorCheck(_, _)
coverageValidatorCheck(c, stdout) ==
  IF stdout = <<>> THEN NoValidateErr
  ELSE LET coverout == Head(stdout)
           matchPercent == IF coverout.kind = "notest" THEN 0 ELSE coverout.pct
       IN IF coverout.kind = "empty" THEN coverageValidatorCheck(c, Tail(stdout))
          ELSE IF coverout.kind = "garbage" THEN UnableToFindMatch(coverout)
          ELSE IF coverout.tab /\ containsName(coverout.path, c.IgnoreDir)
               THEN coverageValidatorCheck(c, Tail(stdout))
          ELSE IF matchPercent + Tolerance <= c.RequiredCoverage
               THEN CoverageError(matchPercent, c.RequiredCoverage)
          ELSE coverageValidatorCheck(c, Tail(stdout))

CoverageCalls ==
  { [fn |-> "coverageCheck", c |-> CoverageValidator(r, d), stdout |-> out] :
      r \in RequiredCoverages, d \in { <<>>, <<"vendor">> },
      out \in SeqsUpTo(CoverLines, MaxOutLines) }

CoverageCheck ==
  /\ fnArgs.fn = "coverageCheck"
  /\ fnRet = NoCall
  /\ fnRet' = [fn |-> "coverageCheck", err |-> coverageValidatorCheck(fnArgs.c, fnArgs.stdout)]
  /\ UNCHANGED <<programVars, fnArgs>>

InitCoverage == FnInit(CoverageCalls)
NextCoverage == CoverageCheck
SpecCoverage == InitCoverage /\ [][NextCoverage]_vars

(* ------------------------- emptyValidator.Check ------------------------- *)
OutLines == { "", "warning: unused", "x.go: warning", "x.go: error" }
IgnoreMsgs == { <<>>, <<"warning">>, <<"unused", "error">>, <<"">> }
Stderrs == { "", "boom" }

\* some ignorable substring is in the line
ignorableByAll(line, msgs) == \A j \in 1..Len(msgs) : Contains(line, msgs[j])
ignorable(line, msgs) == \E j \in 1..Len(msgs) : Contains(line, msgs[j])

\* the loop over the lines of stdout
RECURSIVE unexpectedOutput(_, _)
unexpectedOutput(c, stdout) ==
  IF stdout = <<>> THEN FALSE
  ELSE IF Head(stdout) # "" /\ ~ignorable(Head(stdout), c.IgnoreMsg) THEN TRUE
  ELSE unexpectedOutput(c, Tail(stdout))

\* (c *emptyValidator) Check(stdout, stderr)
emptyValidatorCheck(c, stdout, stderr) ==
  IF c.IgnoreAllOutput THEN NoValidateErr
  ELSE IF stderr # "" THEN [NoValidateErr EXCEPT !.kind = "non empty stderr"]
  ELSE IF unexpectedOutput(c, stdout) THEN [NoValidateErr EXCEPT !.kind = "unexpected output"]
  ELSE NoValidateErr

EmptyCalls ==
  { [fn |-> "emptyCheck", c |-> EmptyValidator(m, a), stdout |-> out, stderr |-> e] :
      m \in IgnoreMsgs, a \in BOOLEAN, out \in SeqsUpTo(OutLines, MaxOutLines),
      e \in Stderrs }

EmptyCheckCall ==
  /\ fnArgs.fn = "emptyCheck"
  /\ fnRet = NoCall
  /\ fnRet' = [fn |-> "emptyCheck",
               err |-> emptyValidatorCheck(fnArgs.c, fnArgs.stdout, fnArgs.stderr)]
  /\ UNCHANGED <<programVars, fnArgs>>

InitEmpty == FnInit(EmptyCalls)
NextEmpty == EmptyCheckCall
SpecEmpty == InitEmpty /\ [][NextEmpty]_vars

(* ------------------ innerCheckIteration: the command -------------------- *)
\* args with every "$1" replaced by param
substitute(args, param) == [j \in 1..Len(args) |-> IF args[j] = "$1" THEN param ELSE args[j]]

\* the command innerCheckIteration hands to exec.Command; hasGodep is what
\* hasGodepDirectory() answers; a nil template is dereferenced
commandToRun(fixMode, c, param, hasGodep) ==
  LET tmpl == argsTemplate(fixMode, c)
  IN IF tmpl = "check" /\ c.Check.nil
     THEN [crashed |-> TRUE, cmdToRun |-> "", args |-> <<>>]
     ELSE LET args == substitute(IF tmpl = "fix" THEN c.Fix.Args ELSE c.Check.Args, param)
          IN IF c.Godep = "true" /\ hasGodep
             THEN [crashed |-> FALSE, cmdToRun |-> "godep", args |-> <<"go">> \o args]
             ELSE [crashed |-> FALSE, cmdToRun |-> c.Cmd, args |-> args]

\* checks after macro resolution, as runCheck hands them to innerCheckIteration
InvokeChecks ==
  { [EmptyCheck EXCEPT !.Name = "invoke", !.Cmd = cmd, !.Godep = g, !.Check = k, !.Fix = f] :
      cmd \in { "go", "golint" }, g \in { "nil", "true", "false" },
      k \in { NilCmd, CheckCmd("", <<"test", "-cover", "$1">>), CheckCmd("", <<"$1">>) },
      f \in { NilCmd, CheckCmd("", <<"-w", "$1">>) } }

InvokeCalls ==
  { [fn |-> "innerCheckIteration", fix |-> f, c |-> c, param |-> p, hasGodep |-> g] :
      f \in BOOLEAN, c \in InvokeChecks, p \in { ".", "a.go" }, g \in BOOLEAN }

InnerCheckIteration ==
  /\ fnArgs.fn = "innerCheckIteration"
  /\ fnRet = NoCall
  /\ fnRet' = [fn |-> "innerCheckIteration",
               cmd |-> commandToRun(fnArgs.fix, fnArgs.c, fnArgs.param, fnArgs.hasGodep)]
  /\ UNCHANGED <<programVars, fnArgs>>

InitInvoke == FnInit(InvokeCalls)
NextInvoke == InnerCheckIteration
SpecInvoke == InitInvoke /\ [][NextInvoke]_vars

(* ============================ properties ================================ *)
\* the value a field resolves to when the check's own value wins if it is given
Wins(own, macro, given) == IF given THEN own ELSE macro

\* a sub-command of the check and of the macro resolved field by field
CmdFieldwise(r, own, macro) ==
  /\ r.nil = (own.nil /\ macro.nil)
  /\ r.Cmd = Wins(own.Cmd, macro.Cmd, own.Cmd # "")
  /\ r.Args = Wins(own.Args, macro.Args, own.Args # <<>>)

\* C11: after a check is merged with its macro, each of name, cmd, gotool and
\* godep, and each of cmd, args and ignoreDir inside fix, check, install and the
\* lister, is the check's own value when that is non-empty (non-nil) and the
\* macro's otherwise; a sub-command both sides have is merged field by field.
C11_NonEmptyWins ==
  fnRet.fn = "mergePropertiesFrom" =>
    LET c == fnArgs.c
        m == fnArgs.macroDef
        r == fnRet.c
    IN /\ r.Name = Wins(c.Name, m.Name, c.Name # "")
       /\ r.Cmd = Wins(c.Cmd, m.Cmd, c.Cmd # "")
       /\ r.Gotool = Wins(c.Gotool, m.Gotool, c.Gotool # "")
       /\ r.Godep = Wins(c.Godep, m.Godep, c.Godep # "nil")
       /\ CmdFieldwise(r.Fix, c.Fix, m.Fix)
       /\ CmdFieldwise(r.Check, c.Check, m.Check)
       /\ CmdFieldwise(r.Install, c.Install, m.Install)
       /\ CmdFieldwise(r.Each, c.Each, m.Each)
       /\ r.Each.IgnoreDir = Wins(c.Each.IgnoreDir, m.Each.IgnoreDir, c.Each.IgnoreDir # <<>>)

\* a fix command that takes its arguments from the check and its cmd from the macro
C11_Witness ==
  /\ fnRet.fn = "mergePropertiesFrom"
  /\ fnArgs.c.Fix = CheckCmd("", <<"own", "$1">>)
  /\ fnArgs.macroDef.Fix = CheckCmd("mac", <<"mac", "$1">>)
  /\ fnRet.c.Fix = CheckCmd("mac", <<"own", "$1">>)
  /\ fnArgs.c.Name = "own" /\ fnRet.c.Name = "own"
  /\ fnArgs.c.Gotool = "" /\ fnRet.c.Gotool = "mac"

\* C12: a check that names a macro the catalog does not have fails before anything
\* is executed: no install command, no lister and no invocation runs for it, its
\* fields stay as the configuration file gave them, and main returns the error.
C12_UnknownMacroFailsEarly ==
  (ci >= 1 /\ chk[ci].Macro # "" /\ chk[ci].Macro \notin DOMAIN Macros
           /\ chk[ci].Validator # "bad") =>
    /\ installs[ci] = 0 /\ listings[ci] = 0
    /\ ~StreamCreated(ci) /\ wk[ci] = EmptyBag /\ received = <<>>
    /\ chk[ci] \in CheckConfigs
    /\ \/ pc \in {"getValidator", "copyFromMacro"}
       \/ /\ pc = "returned"
          /\ exitErr = Err("macro", ci)
          /\ checkErrs[ci] = exitErr

\* the second check names an unknown macro, after a first check that ran
C12_Witness ==
  /\ pc = "returned" /\ ci = 2
  /\ chk[2].Macro = "nope"
  /\ checkErrs = <<NoErr, Err("macro", 2)>>

\* the check's document names no validator type
NoOwnType(doc) == doc.nil \/ (~doc.bad /\ doc.type = "")
\* the value of a key of a document that gives it, zero otherwise
KeyOf(doc, key, zero) == IF doc.nil \/ ~doc[key].given THEN zero ELSE doc[key].v
HasKey(doc, key) == ~doc.nil /\ doc[key].given

\* C13: a check with a macro and no validator type of its own resolves to a
\* validator of the macro's type; a coverage threshold and ignore lists the check
\* gives replace the macro's, and what the check does not give is the macro's.
C13_MacroValidatorLayered ==
  (fnRet.fn = "copyFromMacro" /\ NoOwnType(fnArgs.Validator)) =>
    LET own == fnArgs.Validator
        mac == fnArgs.macroValidator
        r == fnRet.validateDecoded
        macCover == ~mac.nil /\ mac.type = "cover"
    IN /\ ~fnRet.crashed
       /\ r.kind = IF macCover THEN "cover" ELSE "empty"
       /\ macCover =>
            /\ r.RequiredCoverage = Wins(KeyOf(own, "coverage", 0), KeyOf(mac, "coverage", 0),
                                         HasKey(own, "coverage"))
            /\ r.IgnoreDir = Wins(KeyOf(own, "ignoreDir", <<>>), KeyOf(mac, "ignoreDir", <<>>),
                                  HasKey(own, "ignoreDir"))
       /\ ~macCover =>
            /\ r.IgnoreMsg = Wins(KeyOf(own, "ignoreMsg", <<>>), KeyOf(mac, "ignoreMsg", <<>>),
                                  HasKey(own, "ignoreMsg"))
            /\ r.IgnoreAllOutput = (~mac.nil /\ mac.type = "returncode")

\* the segments of a path, without the root
SegmentsOf(filename) == Range(filename) \ { "/" }
\* some segment of the candidate is a fragment of the check's or of the global list
SegmentIgnored(call) ==
  SegmentsOf(call.filename) \cap (Range(call.IgnoreDir) \cup Range(call.confIgnoreDir)) # {}

\* C14: a candidate is dropped exactly when it is empty or one of its segments
\* equals a fragment of the check's lister list or of the global ignore list; a
\* segment that only contains a fragment does not drop it.  A walk that has
\* reached the root without an answer is of a candidate no segment of which is
\* ignored, and the filter of getParams agrees with the walk on relative paths.
C14_SegmentExactFilter ==
  fnRet.fn = "containsName" =>
    LET dropped == fnArgs.filename = <<>> \/ SegmentIgnored(fnArgs)
    IN /\ fnRet.done => (fnRet.out <=> dropped)
       /\ (~fnRet.done /\ fnRet.filename \in { <<>>, <<"/">> }) => ~dropped
       /\ (fnRet.done /\ (fnArgs.filename = <<>> \/ fnArgs.filename[1] # "/")) =>
            (fnRet.out <=> filteredFilename([IgnoreDir |-> fnRet.IgnoreDir], fnArgs.filename))

\* abcde is kept although abcd is ignored
C14_Witness ==
  /\ fnRet.fn = "containsName" /\ fnRet.done /\ ~fnRet.out
  /\ fnArgs.filename = <<"abcde", "abcde", "test.go">>
  /\ fnArgs.IgnoreDir = <<"vendor", "abcd">>
  /\ fnArgs.confIgnoreDir = <<"abcd">>

\* a coverage line under an ignored directory
IgnoredLine(line, dirs) == line.tab /\ line.path # <<>> /\ Range(line.path) \cap Range(dirs) # {}
\* a line the validator retains: not empty and not under an ignored directory
Retained(line, dirs) == line.kind # "empty" /\ ~IgnoredLine(line, dirs)
\* the percentage of a line that has one
Seen(line) == IF line.kind = "notest" THEN 0 ELSE line.pct
HasSeen(line) == line.kind \in { "pct", "notest" }

\* C15: when every retained line has seen >= required the validation succeeds;
\* when a retained line has seen + 0.009 < required it fails, and the coverage
\* error of the first such line (no retained line before it failing) carries that
\* line's seen and the threshold; a no-test-files line counts as seen 0.
C15_ToleranceRule ==
  fnRet.fn = "coverageCheck" =>
    LET out == fnArgs.stdout
        dirs == fnArgs.c.IgnoreDir
        required == fnArgs.c.RequiredCoverage
        Below(j) == Retained(out[j], dirs) /\ HasSeen(out[j])
                    /\ Seen(out[j]) + Tolerance < required
        Fine(j) == ~Retained(out[j], dirs) \/ (HasSeen(out[j]) /\ Seen(out[j]) >= required)
    IN /\ (\A j \in 1..Len(out) : Fine(j)) => fnRet.err = NoValidateErr
       /\ \A j \in 1..Len(out) :
            Below(j) =>
              /\ fnRet.err # NoValidateErr
              /\ (\A i \in 1..(j - 1) : Fine(i)) =>
                    fnRet.err = CoverageError(Seen(out[j]), required)

\* C16: a line under an ignored directory is skipped whatever it holds: the
\* verdict is the verdict on the output without the ignored lines.
C16_IgnoredLineSkipped ==
  fnRet.fn = "coverageCheck" =>
    fnRet.err = coverageValidatorCheck(
                  fnArgs.c,
                  SelectSeq(fnArgs.stdout, LAMBDA l : ~IgnoredLine(l, fnArgs.c.IgnoreDir)))

\* every non-empty line of stdout has one of the ignorable substrings in it
AllLinesIgnorable(out, msgs) ==
  \A j \in 1..Len(out) :
    out[j] = "" \/ \E m \in Range(msgs) : m = out[j] \/ m = "" \/ <<m, out[j]>> \in ProperSubstrings

\* C17: the plain-output validator succeeds exactly when stderr is empty and every
\* non-empty stdout line holds an ignorable substring; output on stderr is
\* reported as the stderr error whatever stdout holds.
C17_PlainOutputRule ==
  (fnRet.fn = "emptyCheck" /\ ~fnArgs.c.IgnoreAllOutput) =>
    /\ fnRet.err = NoValidateErr <=>
         (fnArgs.stderr = "" /\ AllLinesIgnorable(fnArgs.stdout, fnArgs.c.IgnoreMsg))
    /\ fnArgs.stderr # "" => fnRet.err.kind = "non empty stderr"

\* stderr and an unexpected stdout line at once
C17_Witness ==
  /\ fnRet.fn = "emptyCheck" /\ ~fnArgs.c.IgnoreAllOutput
  /\ fnArgs.stderr = "boom"
  /\ fnArgs.stdout = <<"warning: unused", "x.go: error">>
  /\ fnArgs.c.IgnoreMsg = <<"warning">>
  /\ fnRet.err.kind = "non empty stderr"

\* C18: the install command of a check runs at most once, and exactly when the
\* check has one and its command is not on the path or its tool is not listed; a
\* failing "go tool" or a failing install fails the check with that error before
\* its lister or any invocation has run.
C18_InstallOnceWhenNeeded ==
  /\ \A k \in Checks : installs[k] <= 1
  /\ toolProbe.asked =>
       LET c == chk[ci]
           introspectionFailed == c.Gotool # "" /\ ~toolProbe.goToolOK
           toolMissing == c.Gotool # "" /\ ~toolProbe.toolListed
           needed == ~c.Install.nil /\ (~toolProbe.lookPathOK \/ toolMissing)
           err == IF introspectionFailed THEN Err("gotool", ci)
                  ELSE IF needed /\ ~toolProbe.installOK THEN Err("install", ci)
                  ELSE NoErr
       IN /\ introspectionFailed => installs[ci] = 0
          /\ ~introspectionFailed => (installs[ci] = 1 <=> needed)
          /\ err = NoErr => pc = "runCheck"
          /\ err # NoErr => /\ pc = "returned" /\ exitErr = err
                            /\ checkErrs[ci] = err
          /\ listings[ci] = 0 /\ ~StreamCreated(ci) /\ wk[ci] = EmptyBag

\* the command is on the path, its tool is not listed, and the install has run
C18_Witness ==
  /\ toolProbe.asked /\ pc = "runCheck"
  /\ chk[ci].Gotool = "vet"
  /\ toolProbe.lookPathOK /\ ~toolProbe.toolListed
  /\ installs[ci] = 1

\* C19: with the godep flag set and the Godeps directory present an invocation
\* runs the wrapper with the check's cmd field prepended to the substituted
\* arguments; otherwise it runs the check's cmd with the substituted arguments.
C19_WrapperPrependsCmd ==
  (fnRet.fn = "innerCheckIteration" /\ ~fnRet.cmd.crashed) =>
    LET c == fnArgs.c
        template == IF fnArgs.fix /\ ~c.Fix.nil THEN c.Fix.Args ELSE c.Check.Args
        substituted == [j \in 1..Len(template) |->
                          IF template[j] = "$1" THEN fnArgs.param ELSE template[j]]
    IN IF c.Godep = "true" /\ fnArgs.hasGodep
       THEN fnRet.cmd.cmdToRun = "godep" /\ fnRet.cmd.args = <<c.Cmd>> \o substituted
       ELSE fnRet.cmd.cmdToRun = c.Cmd /\ fnRet.cmd.args = substituted

\* C20: a check whose needed template is nil fails with an error that is
\* reported: the process does not panic, and the check's iteration does not end
\* without an error.
C20_NilTemplateFails ==
  /\ crashed # "nil template"
  /\ (IterationOver /\ argsTemplate(fix, chk[ci]) = "check" /\ chk[ci].Check.nil) =>
       checkErrs[ci] # NoErr

\* the workers of check k whose child process is running
RunningWorkers(k) == { r \in BagToSet(wk[k]) : r.pc = "run" }

\* C21: the fix template is run on a target only after an attempt on that target
\* has failed.
C21_FixOnlyAfterFailure ==
  \A k \in Checks : \A r \in RunningWorkers(k) :
    r.tmpl = "fix" => (Len(hist[k][r.i]) >= 1 /\ hist[k][r.i][1] # NoErr)

\* C21, as the code has it: in fix mode every attempt of a check with a fix
\* template, the first included, runs the fix template, and any other attempt
\* runs the check template; a second attempt is made only in fix mode, with a fix
\* template, after a first attempt that failed.
C21_FixTemplateOnEveryAttempt ==
  \A k \in Checks : \A r \in RunningWorkers(k) :
    /\ r.tmpl = IF fix /\ ~chk[k].Fix.nil THEN "fix" ELSE "check"
    /\ r.attempt \in {1, 2} /\ Len(hist[k][r.i]) = r.attempt - 1
    /\ r.attempt = 2 => (fix /\ ~chk[k].Fix.nil /\ hist[k][r.i][1] # NoErr)

\* the first attempt on a target runs the fix template
C21_Witness ==
  /\ ci >= 1
  /\ \E r \in RunningWorkers(ci) :
       r.tmpl = "fix" /\ r.attempt = 1 /\ hist[ci][r.i] = <<>>

\* C22: a check run comes to an end with nothing left behind: when its result
\* stream is closed (the caller's receive loop then ends and checkStream returns)
\* every enumerated target has been reported and the producer, every worker and
\* the closer have finished, so none of them is blocked from then on.
C22_AllReportedNoneBlocked ==
  \A k \in Checks :
    (WorkerPath(k) /\ outClosed[k]) =>
      /\ prod[k] = "done" /\ closer[k] = "done"
      /\ \A r \in BagToSet(wk[k]) : r.pc = "done"
      /\ \A i \in 1..Len(params[k]) : Len(hist[k][i]) >= 1
      /\ (k = ci /\ pc # "drain") => Len(received) = Len(params[k])

\* C23: the walk of containsName ends on every path: an iteration that does
\* not return leaves a remaining path strictly shorter than the one it began with.
C23_WalkShortensPath ==
  (fnRet.fn = "containsName" /\ ~fnRet.done /\ fnRet.filename # <<>>) =>
    LET split == pathSplit(fnRet.filename)
    IN \/ \E j \in 1..Len(fnRet.IgnoreDir) : fnRet.IgnoreDir[j] = split.file
       \/ Len(split.dir) < Len(fnRet.filename)

\* C24: the macro map is never changed by resolving and executing checks: every
\* macro, its lister's ignore list included, stays as it was after the load.
C24_MacrosUnchanged == macros = Macros

\* C25: the coverage validator a check is executed with ignores every fragment
\* of the "ignoreDir" its validator configuration gives, and those of its
\* macro's when the check takes the macro's validator and gives none itself.
C25_CoverageIgnoreDirKept ==
  (fnRet.fn = "checkStream" /\ fnRet.validateDecoded.kind = "cover") =>
    LET own == fnArgs.Validator
        mac == fnArgs.macroValidator
        ignored == Range(fnRet.validateDecoded.IgnoreDir)
    IN /\ Range(KeyOf(own, "ignoreDir", <<>>)) \subseteq ignored
       /\ (fnArgs.Macro # "" /\ NoOwnType(own) /\ KeyOf(own, "ignoreDir", <<>>) = <<>>) =>
            Range(KeyOf(mac, "ignoreDir", <<>>)) \subseteq ignored

\* C26: a check that declares a validator type keeps a validator of that type
\* when its macro is resolved, whatever validator the macro has.
C26_OwnValidatorTypeKept ==
  (fnRet.fn = "copyFromMacro" /\ ~fnArgs.Validator.nil /\ fnArgs.Validator.type # "") =>
    LET own == fnArgs.Validator
        r == fnRet.validateDecoded
    IN /\ r.kind = IF own.type = "cover" THEN "cover" ELSE "empty"
       /\ own.type = "returncode" => r.IgnoreAllOutput
       /\ own.type = "plain" => r.IgnoreMsg = KeyOf(own, "ignoreMsg", <<>>)

====
